---- MODULE Spec2Model ----
(***************************************************************************)
(* Model of the Bayesian-optimisation loop of src/src/main.py: Parameter,  *)
(* normalize / denormalize, latin_hypercube, SimpleBO (suggest / observe)  *)
(* and run(), together with the experiment it is run against.              *)
(*                                                                         *)
(* Numbers.  Normalized coordinates are rationals u / Den, kept as the     *)
(* integer numerator u (0 <= u < Den for a draw of np.random.rand).  A     *)
(* physical value v is kept as the integer v * Den.  Objective values are  *)
(* integers; float("-inf") is the integer NegInf, below every other value. *)
(*                                                                         *)
(* Libraries.  numpy's global random stream is a deterministic generator:  *)
(* a state, a seeding function and a step function (here a linear          *)
(* congruential generator).  sklearn's GaussianProcessRegressor is a       *)
(* deterministic function of (X, y, candidates) once fitted; it is         *)
(* modelled by a nearest-observation predictor (mean = objective of the    *)
(* nearest observation, std = distance to it), and its input validation    *)
(* (no feature-less X, no non-finite y) by a ValueError.                   *)
(***************************************************************************)
EXTENDS Integers, Sequences, FiniteSets, TLC

VARIABLES
    ARTIQ_AVAILABLE,  \* hardware_driver: whether the import of artiq.experiment succeeded
    calls,            \* the calls an ARTIQ entry point run() has made, in order
    experiment,       \* the evaluator object: its kind and the space it declares
    args,             \* run()'s arguments: init_trials, max_trials, seed, stabilizer
    pc,               \* position of the control in run()
    rng,              \* state of numpy's global random stream
    pyrng,            \* state of Python's global random stream
    parameters,       \* run(): parameters
    bo,               \* run(): bo, the SimpleBO instance (its X and y)
    initial,          \* run(): initial, the Latin-hypercube design
    best,             \* run(): best, the incumbent
    t,                \* run(): the loop variable
    proposal,         \* run(): proposal
    objective_value,  \* run(): objective_value
    returned,         \* what run() returned, None until it returns
    error,            \* the exception run() raised, "none" until it raises
    events,           \* calls made by the current run, in order
    memo,             \* answers a deterministic evaluator has given so far
    runs,             \* number of calls of run() started in this process
    foreign,          \* draws other code made from numpy's stream since the last run
    prev              \* candidates and result of the previous call of run()

vars == <<ARTIQ_AVAILABLE, calls, experiment, args, pc, rng, pyrng, parameters, bo, initial, best, t,
          proposal, objective_value, returned, error, events, memo, runs, foreign, prev>>

\* ---------------------------------------------------------------- bounds
MaxInit == 2
MaxTrials == 3
MaxSeed == 1
MaxObj == 1
RandLevels == 2
RngMod == 16
NumCandidates == 2
MaxForeign == 1
MaxTape == 3
MantissaBits == 8

\* ------------------------------------------------------ program constants
NegInf == -99
Beta == 2

RECURSIVE Factorial(_)
Factorial(n) == IF n <= 1 THEN 1 ELSE n * Factorial(n - 1)

\* common denominator of every normalized coordinate of the model
Den == RandLevels * Factorial(MaxInit)

None == << >>
Some(x) == << x >>

Abs(a) == IF a < 0 THEN -a ELSE a

\* ------------------------------------------------------------- float64
\* A float keeps MantissaBits significant bits (53 in float64): fl(x) is x
\* rounded to the nearest such value, ties to even.  Values are integers in
\* units of 1 / Den, which is the finest step of the model.
RECURSIVE Pow2(_)
Pow2(n) == IF n = 0 THEN 1 ELSE 2 * Pow2(n - 1)

\* the spacing of the floats around a >= 0
RECURSIVE Ulp(_)
Ulp(a) == IF a < Pow2(MantissaBits) THEN 1 ELSE 2 * Ulp(a \div 2)


fl(x) ==
    LET a == Abs(x)
        u == Ulp(a)
        q == a \div u
        r == a - q * u
        up == 2 * r > u \/ (2 * r = u /\ q % 2 = 1)
        m == IF up THEN (q + 1) * u ELSE q * u
    IN  IF x < 0 THEN -m ELSE m

\* the quotient a / b, b # 0, to the nearest step of the model
Quot(a, b) ==
    IF b < 0 THEN (2 * (-a) + (-b)) \div (2 * (-b)) ELSE (2 * a + b) \div (2 * b)

\* ---------------------------------------------------------- Parameter
Parameter(name, low, high) == [name |-> name, bounds |-> <<low, high>>]

Names(params) == {params[i].name : i \in 1..Len(params)}

IndexOf(params, name) == CHOOSE i \in 1..Len(params) : params[i].name = name

\* the parameter spaces an experiment may declare; Parameter validates nothing
ParamSpaces ==
    { << >>,
      << Parameter("a", 0, 2) >>,
      << Parameter("a", 0, 2), Parameter("b", 1, 3) >>,
      << Parameter("a", 1, 1) >>,
      << Parameter("a", 2, 0) >> }

WellFormed(params) ==
    /\ Len(params) >= 1
    /\ \A i \in 1..Len(params) : params[i].bounds[1] < params[i].bounds[2]

\* ------------------------------------------------- normalize / denormalize
\* a bound as the float it is stored as, in units of 1 / Den
Bound(b) == fl(b * Den)

\* p.bounds[1] - p.bounds[0]
Width(p) == fl(Bound(p.bounds[2]) - Bound(p.bounds[1]))

\* a zero width makes the division of normalize raise ZeroDivisionError
normalize_raises(params) == \E i \in 1..Len(params) : Width(params[i]) = 0

normalize_by_high(params, physical) ==
    [i \in 1..Len(params) |->
        LET h == Bound(params[i].bounds[2])
        IN  fl(Quot(Den * fl(physical[params[i].name] - Bound(params[i].bounds[1])),
                    IF h = 0 THEN 1 ELSE h))]

\* (physical[p.name] - low) / (high - low), each operation rounded
normalize(params, physical) ==
    [i \in 1..Len(params) |->
        fl(Quot(Den * fl(physical[params[i].name] - Bound(params[i].bounds[1])),
                Width(params[i])))]

denormalize_unit_passthrough(params, unit) ==
    [n \in Names(params) |-> unit[IndexOf(params, n)]]

\* low + unit[i] * (high - low), each operation rounded
denormalize(params, unit) ==
    [n \in Names(params) |->
        LET i == IndexOf(params, n)
        IN  fl(Bound(params[i].bounds[1])
                 + fl(Quot(unit[i] * Width(params[i]), Den)))]

\* ------------------------------------------------------ numpy random stream
\* A stream is its last raw output s (0 <= s < RngMod) and a tape: the raw
\* outputs it gives next, which for a stream seeded from the system's entropy
\* are arbitrary.  A stream seeded by np.random.seed has an empty tape and
\* steps as a function of s.
Stream(s) == [s |-> s, tape |-> << >>]

np_random_seed_skipped(s) == rng
np_random_seed_fixed(s) == Stream(0)
np_random_seed(s) == Stream(s % RngMod)

rng_step(st) ==
    IF st.tape # << >>
    THEN [s |-> Head(st.tape), tape |-> Tail(st.tape)]
    ELSE Stream((5 * st.s + 3) % RngMod)

\* np.random.rand(): one draw in [0, 1), as a numerator over Den
rand1(st) ==
    LET s == rng_step(st)
    IN  [val |-> ((s.s * RandLevels) \div RngMod) * (Den \div RandLevels), st |-> s]

\* np.random.rand(n): n successive draws
RECURSIVE rand(_, _)
rand(st, n) ==
    IF n = 0 THEN [vals |-> << >>, st |-> st]
    ELSE LET d == rand1(st)
             r == rand(d.st, n - 1)
         IN  [vals |-> <<d.val>> \o r.vals, st |-> r.st]

\* a random integer in 0..hi
rand_interval(st, hi) ==
    LET s == rng_step(st)
    IN  [val |-> (s.s * (hi + 1)) \div RngMod, st |-> s]

Swap(x, i, j) == [x EXCEPT ![i] = x[j], ![j] = x[i]]

\* np.random.shuffle(x): for i = n-1 down to 1, swap x[i] with x[j], j drawn in 0..i
RECURSIVE shuffle_from(_, _, _)
shuffle_from(x, st, i) ==
    IF i < 1 THEN [vals |-> x, st |-> st]
    ELSE LET d == rand_interval(st, i)
         IN  shuffle_from(Swap(x, i + 1, d.val + 1), d.st, i - 1)

shuffle(x, st) == shuffle_from(x, st, Len(x) - 1)

\* -------------------------------------------------------- latin_hypercube
\* strata = (np.arange(n) + np.random.rand(n)) / n, then shuffled
strata_column_unstratified(n, st) ==
    LET r == rand(st, n)
    IN  shuffle(r.vals, r.st)

strata_column(n, st) ==
    LET r == rand(st, n)
        strata == [k \in 1..n |-> ((k - 1) * Den + r.vals[k]) \div n]
    IN  shuffle(strata, r.st)

RECURSIVE strata_columns(_, _, _)
strata_columns(dim, n, st) ==
    IF dim = 0 THEN [cols |-> << >>, st |-> st]
    ELSE LET c == strata_column(n, st)
             rest == strata_columns(dim - 1, n, c.st)
         IN  [cols |-> <<c.vals>> \o rest.cols, st |-> rest.st]

latin_hypercube(params, n, st) ==
    LET dim == Len(params)
        u == strata_columns(dim, n, st)
        unit == [i \in 1..n |-> [j \in 1..dim |-> u.cols[j][i]]]
    IN  [design |-> [i \in 1..n |-> denormalize(params, unit[i])],
         unit |-> unit,
         st |-> u.st]

\* ---------------------------------------------------------------- SimpleBO
SimpleBO == [X |-> << >>, y |-> << >>]

\* np.random.rand(candidates, dim): filled row by row
RECURSIVE rand_rows(_, _, _)
rand_rows(st, n, dim) ==
    IF n = 0 THEN [rows |-> << >>, st |-> st]
    ELSE LET r == rand(st, dim)
             rest == rand_rows(r.st, n - 1, dim)
         IN  [rows |-> <<r.vals>> \o rest.rows, st |-> rest.st]

RECURSIVE SumSeq(_)
SumSeq(s) == IF s = << >> THEN 0 ELSE Head(s) + SumSeq(Tail(s))

Distance(a, b) == SumSeq([j \in 1..Len(a) |-> Abs(a[j] - b[j])])

\* np.vstack(self.X) and self.gp.fit(X, y): nothing to stack, and the
\* regressor's input validation
gp_fit_raises(X, y, dim) ==
    \/ Len(X) = 0
    \/ dim = 0
    \/ \E i \in 1..Len(y) : y[i] = NegInf

\* self.gp.predict(c, return_std=True) of the regressor fitted on (X, y)
gp_predict(X, y, c) ==
    LET near == CHOOSE i \in 1..Len(X) :
                   \A k \in 1..Len(X) :
                      \/ Distance(X[i], c) < Distance(X[k], c)
                      \/ Distance(X[i], c) = Distance(X[k], c) /\ i <= k
    IN  [mean |-> y[near] * Den, std |-> Distance(X[near], c)]

\* int(np.argmax(ucb)): the first index of the greatest score
argmax(ucb) ==
    CHOOSE i \in 1..Len(ucb) :
        \A k \in 1..Len(ucb) : ucb[i] > ucb[k] \/ (ucb[i] = ucb[k] /\ i <= k)

cold_start_off_by_one(n, dim) == n < dim
cold_start_late(n, dim) == n < dim + 2
cold_start(n, dim) == n < dim + 1

fit_data_latest_only(X, y) ==
    [X |-> SubSeq(X, Len(X), Len(X)), y |-> SubSeq(y, Len(y), Len(y))]

\* X = np.vstack(self.X); y = np.array(self.y): what self.gp.fit is given
fit_data(X, y) == [X |-> X, y |-> y]

\* SimpleBO.suggest: the point returned, the stream afterwards, whether the
\* regressor was fitted, on what, and the exception raised, if any
suggest(params, X, y, st, candidates) ==
    LET dim == Len(params)
        d == fit_data(X, y)
    IN  IF cold_start(Len(y), dim)
        THEN LET r == rand(st, dim)
             IN  [unit |-> r.vals, st |-> r.st, fit |-> FALSE, trained |-> None,
                  error |-> "none"]
        ELSE IF gp_fit_raises(d.X, d.y, dim)
        THEN [unit |-> << >>, st |-> st, fit |-> TRUE, trained |-> Some(d),
              error |-> "ValueError"]
        ELSE LET c == rand_rows(st, candidates, dim)
                 ucb == [i \in 1..candidates |->
                            LET p == gp_predict(d.X, d.y, c.rows[i])
                            IN  p.mean + Beta * p.std]
             IN  [unit |-> c.rows[argmax(ucb)], st |-> c.st,
                  fit |-> TRUE, trained |-> Some(d), error |-> "none"]

observe_prepend(b, unit_x, objective) ==
    [X |-> <<unit_x>> \o b.X, y |-> <<objective>> \o b.y]

\* SimpleBO.observe
observe(b, unit_x, objective) ==
    [X |-> Append(b.X, unit_x), y |-> Append(b.y, objective)]

\* ------------------------------------------------------------- the process
Seeds == 0..MaxSeed
ObjValues == {NegInf} \cup (0..MaxObj)

\* any object with parameter_space() and evaluate() ("protocol"), over any
\* space; a ConfigurableBOExperiment ("configurable"), whose parameter_space()
\* differs from it on the empty space only
Experiments ==
    [kind : {"protocol"}, parameters : ParamSpaces]
      \cup [kind : {"configurable"},
            parameters : {<< >>, << Parameter("a", 0, 2) >>}]

Init ==
    /\ experiment \in Experiments
    /\ args \in [init_trials : 0..MaxInit, max_trials : 1..MaxTrials,
                 seed : Seeds, stabilizer : BOOLEAN]
    /\ pc = "idle"
    /\ rng = Stream(0)
    /\ pyrng = 0
    /\ parameters = << >>
    /\ bo = SimpleBO
    /\ initial = << >>
    /\ best = None
    /\ t = 0
    /\ proposal = None
    /\ objective_value = None
    /\ returned = None
    /\ error = "none"
    /\ events = << >>
    /\ memo = {}
    /\ runs = 0
    /\ foreign = 0
    /\ prev = None
    /\ ARTIQ_AVAILABLE = FALSE
    /\ calls = << >>

\* other code of the process draws from numpy's global stream between runs
ForeignDraw ==
    /\ pc = "idle"
    /\ foreign < MaxForeign
    /\ foreign' = foreign + 1
    /\ rng' = rng_step(rng)
    /\ UNCHANGED <<ARTIQ_AVAILABLE, calls, experiment, args, pc, pyrng, parameters, bo, initial, best, t,
                   proposal, objective_value, returned, error, events, memo,
                   runs, prev>>

\* experiment.parameter_space()
parameter_space_raises(e) == e.kind = "configurable" /\ e.parameters = << >>

\* run(), up to the loop: seeding, parameter_space(), SimpleBO, design, best
Start ==
    /\ pc = "idle"
    /\ runs' = runs + 1
    /\ foreign' = 0
    /\ pyrng' = args.seed
    /\ IF parameter_space_raises(experiment)
       THEN /\ rng' = np_random_seed(args.seed)
            /\ pc' = "raised"
            /\ error' = "RuntimeError"
            /\ events' = << [kind |-> "seed", seed |-> args.seed, before |-> rng] >>
            /\ UNCHANGED <<parameters, bo, initial, best, t>>
       ELSE LET lh == latin_hypercube(experiment.parameters, args.init_trials,
                                      np_random_seed(args.seed))
            IN  /\ parameters' = experiment.parameters
                /\ bo' = SimpleBO
                /\ initial' = lh.design
                /\ rng' = lh.st
                /\ best' = [params |-> None, objective |-> NegInf]
                /\ t' = 0
                /\ pc' = "loop"
                /\ events' = << [kind |-> "seed", seed |-> args.seed, before |-> rng],
                                [kind |-> "design", n |-> Len(lh.design)] >>
                /\ UNCHANGED error
    /\ UNCHANGED <<ARTIQ_AVAILABLE, calls, experiment, args, proposal, objective_value, returned, memo, prev>>

uses_design_early_handover(tt, init_trials) == tt < init_trials - 1
uses_design(tt, init_trials) == tt < init_trials

\* for t in range(max_trials): proposal = initial[t] if t < init_trials else ...
Propose ==
    /\ pc = "loop"
    /\ t < args.max_trials
    /\ IF uses_design(t, args.init_trials)
       THEN /\ proposal' = Some(initial[t + 1])
            /\ pc' = "stabilize"
            /\ UNCHANGED <<rng, error, events>>
       ELSE LET s == suggest(parameters, bo.X, bo.y, rng, NumCandidates)
            IN  /\ rng' = s.st
                /\ events' = Append(events, [kind |-> "suggest", t |-> t,
                                             fit |-> s.fit, unit |-> s.unit,
                                             trained |-> s.trained,
                                             raised |-> s.error # "none"])
                /\ IF s.error # "none"
                   THEN /\ pc' = "raised"
                        /\ error' = s.error
                        /\ UNCHANGED proposal
                   ELSE /\ pc' = "stabilize"
                        /\ proposal' = Some(denormalize(parameters, s.unit))
                        /\ UNCHANGED error
    /\ UNCHANGED <<ARTIQ_AVAILABLE, calls, experiment, args, pyrng, parameters, bo, initial, best, t,
                   objective_value, returned, memo, runs, foreign, prev>>

\* stabilize(proposal)
Stabilize ==
    /\ pc = "stabilize"
    /\ events' = Append(events, [kind |-> "stabilize", t |-> t,
                                 point |-> proposal[1],
                                 hook |-> args.stabilizer])
    /\ pc' = "evaluate"
    /\ UNCHANGED <<ARTIQ_AVAILABLE, calls, experiment, args, rng, pyrng, parameters, bo, initial, best, t,
                   proposal, objective_value, returned, error, memo, runs, foreign, prev>>

Outcomes == [raised : {FALSE}, value : ObjValues] \cup {[raised |-> TRUE, value |-> NegInf]}

EvaluateWith_swallowed(o) ==
    /\ events' = Append(events, [kind |-> "evaluate", t |-> t,
                                 point |-> proposal[1],
                                 raised |-> o.raised, value |-> o.value])
    /\ pc' = "observe"
    /\ objective_value' = Some(o.value)
    /\ UNCHANGED <<ARTIQ_AVAILABLE, calls, experiment, args, rng, pyrng, parameters, bo, initial, best, t,
                   proposal, returned, error, runs, foreign, prev>>

\* objective_value = experiment.evaluate(proposal), the evaluator answering o
EvaluateWith(o) ==
    /\ events' = Append(events, [kind |-> "evaluate", t |-> t,
                                 point |-> proposal[1],
                                 raised |-> o.raised, value |-> o.value])
    /\ IF o.raised
       THEN /\ pc' = "raised"
            /\ error' = "EvaluatorError"
            /\ UNCHANGED objective_value
       ELSE /\ pc' = "observe"
            /\ objective_value' = Some(o.value)
            /\ UNCHANGED error
    /\ UNCHANGED <<ARTIQ_AVAILABLE, calls, experiment, args, rng, pyrng, parameters, bo, initial, best, t,
                   proposal, returned, runs, foreign, prev>>

\* an evaluator free to answer anything (a measurement)
Evaluate ==
    /\ pc = "evaluate"
    /\ \E o \in Outcomes : EvaluateWith(o)
    /\ UNCHANGED memo

\* a deterministic evaluator: its answer is a function of the point
EvaluateDeterministic ==
    /\ pc = "evaluate"
    /\ \E o \in Outcomes :
          /\ \A m \in memo : m.point = proposal[1] => m.outcome = o
          /\ memo' = memo \cup {[point |-> proposal[1], outcome |-> o]}
          /\ EvaluateWith(o)

\* bo.observe(normalize(parameters, proposal), objective_value)
Observe ==
    /\ pc = "observe"
    /\ IF normalize_raises(parameters)
       THEN /\ pc' = "raised"
            /\ error' = "ZeroDivisionError"
            /\ UNCHANGED <<bo, events>>
       ELSE LET x == normalize(parameters, proposal[1])
            IN  /\ bo' = observe(bo, x, objective_value[1])
                /\ events' = Append(events, [kind |-> "observe", t |-> t, x |-> x,
                                             objective |-> objective_value[1]])
                /\ pc' = "compare"
                /\ UNCHANGED error
    /\ UNCHANGED <<ARTIQ_AVAILABLE, calls, experiment, args, rng, pyrng, parameters, initial, best, t,
                   proposal, objective_value, returned, memo, runs, foreign, prev>>

replaces_on_tie(value, incumbent) == value >= incumbent
replaces_always(value, incumbent) == TRUE
replaces(value, incumbent) == value > incumbent

Compare_objective_only ==
    /\ pc = "compare"
    /\ LET r == replaces(objective_value[1], best.objective)
       IN  /\ best' = IF r THEN [params |-> best.params, objective |-> objective_value[1]]
                           ELSE best
           /\ events' = Append(events, [kind |-> "compare", t |-> t, replaced |-> r])
    /\ pc' = "log"
    /\ UNCHANGED <<ARTIQ_AVAILABLE, calls, experiment, args, rng, pyrng, parameters, bo, initial, t,
                   proposal, objective_value, returned, error, memo, runs, foreign, prev>>

\* if objective_value > best["objective"]: best = {...}
Compare ==
    /\ pc = "compare"
    /\ LET r == replaces(objective_value[1], best.objective)
       IN  /\ best' = IF r THEN [params |-> proposal, objective |-> objective_value[1]]
                           ELSE best
           /\ events' = Append(events, [kind |-> "compare", t |-> t, replaced |-> r])
    /\ pc' = "log"
    /\ UNCHANGED <<ARTIQ_AVAILABLE, calls, experiment, args, rng, pyrng, parameters, bo, initial, t,
                   proposal, objective_value, returned, error, memo, runs, foreign, prev>>

Log_one_based ==
    /\ pc = "log"
    /\ events' = Append(events, [kind |-> "record", t |-> t + 1,
                                 objective |-> objective_value[1],
                                 params |-> proposal[1]])
    /\ t' = t + 1
    /\ pc' = "loop"
    /\ UNCHANGED <<ARTIQ_AVAILABLE, calls, experiment, args, rng, pyrng, parameters, bo, initial, best,
                   proposal, objective_value, returned, error, memo, runs, foreign, prev>>

\* print(f"trial {t:02d} | objective=... | params=..."), then the next t
Log ==
    /\ pc = "log"
    /\ events' = Append(events, [kind |-> "record", t |-> t,
                                 objective |-> objective_value[1],
                                 params |-> proposal[1]])
    /\ t' = t + 1
    /\ pc' = "loop"
    /\ UNCHANGED <<ARTIQ_AVAILABLE, calls, experiment, args, rng, pyrng, parameters, bo, initial, best,
                   proposal, objective_value, returned, error, memo, runs, foreign, prev>>

\* the loop is exhausted: print and return best
Return ==
    /\ pc = "loop"
    /\ t >= args.max_trials
    /\ returned' = Some(best)
    /\ pc' = "done"
    /\ UNCHANGED <<ARTIQ_AVAILABLE, calls, experiment, args, rng, pyrng, parameters, bo, initial, best, t,
                   proposal, objective_value, error, events, memo, runs, foreign, prev>>

Next ==
    \/ ForeignDraw
    \/ Start
    \/ Propose
    \/ Stabilize
    \/ Evaluate
    \/ Observe
    \/ Compare
    \/ Log
    \/ Return

Spec == Init /\ [][Next]_vars

\* the caller calls run() again with the same arguments, whether the first
\* call returned or raised
Rerun ==
    /\ pc \in {"done", "raised"}
    /\ runs < 2
    /\ prev' = Some([events |-> events, returned |-> returned, error |-> error])
    /\ pc' = "idle"
    /\ parameters' = << >>
    /\ bo' = SimpleBO
    /\ initial' = << >>
    /\ best' = None
    /\ t' = 0
    /\ proposal' = None
    /\ objective_value' = None
    /\ returned' = None
    /\ error' = "none"
    /\ events' = << >>
    /\ UNCHANGED <<ARTIQ_AVAILABLE, calls, experiment, args, rng, pyrng, memo, runs, foreign>>

NextRerun ==
    \/ ForeignDraw
    \/ Start
    \/ Propose
    \/ Stabilize
    \/ EvaluateDeterministic
    \/ Observe
    \/ Compare
    \/ Log
    \/ Return
    \/ Rerun

\* two calls of run() with the same arguments, without a stabilizer, against
\* a deterministic evaluator
InitRerun == Init /\ ~args.stabilizer

SpecRerun == InitRerun /\ [][NextRerun]_vars

\* ------------------------------------------------------- reading the events
EventsOf(evs, kind) == SelectSeq(evs, LAMBDA e : e.kind = kind)

\* the candidates of a run, trial by trial
Candidates(evs) ==
    LET st == EventsOf(evs, "stabilize") IN [i \in 1..Len(st) |-> st[i].point]

\* the objective values the evaluator returned, in call order
Returned(evs) ==
    LET ev == SelectSeq(evs, LAMBDA e : e.kind = "evaluate" /\ ~e.raised)
    IN  [i \in 1..Len(ev) |-> ev[i].value]

Range(s) == {s[i] : i \in 1..Len(s)}

IsMax(m, s) == m \in Range(s) /\ \A v \in Range(s) : v <= m

Dim == Len(parameters)

InRun == pc \in {"loop", "stabilize", "evaluate", "observe", "compare", "log", "done"}

\* ------------------------------------------------------------------ claims

\* C1: when run() returns, the objective of the returned incumbent is the
\* greatest of the max_trials objective values the evaluator returned.
C1_ReturnedIsMaximum ==
    pc = "done" =>
        /\ Len(Returned(events)) = args.max_trials
        /\ IsMax(returned[1].objective, Returned(events))

C1_Witness ==
    /\ pc = "done"
    /\ Returned(events) = <<0, 1, 0>>
    /\ returned[1].objective = 1

\* C2: when the evaluator raises in trial k, run() raises that error and
\* returns nothing: the failing call is the last call of the run (no retry,
\* no later trial), the surrogate holds the k observations of the earlier
\* trials only, and no incumbent is returned.
C2_EvaluatorErrorPropagates ==
    \A i \in 1..Len(events) :
        (events[i].kind = "evaluate" /\ events[i].raised) =>
            /\ i = Len(events)
            /\ pc = "raised"
            /\ error = "EvaluatorError"
            /\ returned = None
            /\ Len(bo.X) = events[i].t
            /\ Len(bo.y) = events[i].t
            /\ Len(EventsOf(events, "evaluate")) = events[i].t + 1
            /\ \A j \in 1..Len(events) :
                  events[j].kind \notin {"seed", "design"} => events[j].t <= events[i].t

C2_Witness ==
    /\ pc = "raised"
    /\ error = "EvaluatorError"
    /\ t = 1
    /\ args.max_trials = 3
    /\ Len(bo.y) = 1

\* C3: a run over an empty space, or over a space with a parameter whose
\* bounds have low >= high, invokes neither the stabilizer hook nor the
\* evaluator and does not return.
C3_ConfigurationErrorRejected ==
    ~WellFormed(experiment.parameters) =>
        /\ EventsOf(events, "stabilize") = << >>
        /\ EventsOf(events, "evaluate") = << >>
        /\ pc # "done"

\* C4: the second of two runs with the same arguments against a deterministic
\* evaluator proposes, trial by trial, the candidates of the first and ends
\* as the first did, with the same incumbent, whatever state numpy's stream
\* was in before each run.
IsPrefix(a, b) == Len(a) <= Len(b) /\ \A i \in 1..Len(a) : a[i] = b[i]

C4_Deterministic ==
    (prev # None /\ pc # "idle") =>
        /\ IsPrefix(Candidates(events), Candidates(prev[1].events))
        /\ pc \in {"done", "raised"} =>
              /\ Candidates(events) = Candidates(prev[1].events)
              /\ returned = prev[1].returned
              /\ error = prev[1].error

C4_Witness ==
    /\ prev # None
    /\ pc = "done"
    /\ args.init_trials = 1
    /\ Len(Candidates(events)) = 3
    /\ events[1].before # prev[1].events[1].before
    /\ \E i \in 1..Len(events) : events[i].kind = "suggest" /\ events[i].fit

\* C5: a trial t < init_trials evaluates initial[t], a point of the design
\* generated once before trial 0, and calls suggest() not at all; a trial
\* t >= init_trials evaluates denormalize(parameters, u) for the u of its one
\* suggest() call.
SuggestsOf(tt) ==
    SelectSeq(events, LAMBDA e : e.kind = "suggest" /\ e.t = tt)

C5_CandidateSource ==
    InRun =>
        /\ Len(EventsOf(events, "design")) = 1
        /\ events[2].kind = "design"
        /\ Len(initial) = args.init_trials
        /\ \A i \in 1..Len(events) :
              events[i].kind = "stabilize" =>
                  IF events[i].t < args.init_trials
                  THEN /\ events[i].point = initial[events[i].t + 1]
                       /\ SuggestsOf(events[i].t) = << >>
                  ELSE /\ Len(SuggestsOf(events[i].t)) = 1
                       /\ events[i].point =
                             denormalize(parameters, SuggestsOf(events[i].t)[1].unit)

C5_Witness ==
    /\ pc = "done"
    /\ args.init_trials = 1
    /\ args.max_trials = 3
    /\ Dim = 2
    /\ Len(EventsOf(events, "suggest")) = 2

\* C6: the calls of the trials are, in order and once each per trial,
\* stabilize(candidate), evaluate(the same candidate), observe(normalize(
\* parameters, candidate), the value returned), the comparison with the
\* incumbent and the record (t, objective, candidate); no call of a later
\* trial precedes a call of an earlier one.
Order == <<"stabilize", "evaluate", "observe", "compare", "record">>

TrialEvents == SelectSeq(events, LAMBDA e : e.kind \in Range(Order))

C6_TrialOrder ==
    LET te == TrialEvents
    IN  /\ \A i \in 1..Len(te) :
              /\ te[i].kind = Order[((i - 1) % 5) + 1]
              /\ te[i].t = (i - 1) \div 5
        /\ \A i \in 1..Len(te) :
              /\ te[i].kind = "stabilize" =>
                    /\ te[i].hook = args.stabilizer
                    /\ te[i].point = proposal[1] \/ te[i].t < t
              /\ te[i].kind = "evaluate" => te[i].point = te[i - 1].point
              /\ te[i].kind = "observe" =>
                    /\ te[i].x = normalize(parameters, te[i - 2].point)
                    /\ te[i].objective = te[i - 1].value
                    /\ ~te[i - 1].raised
              /\ te[i].kind = "record" =>
                    /\ te[i].objective = te[i - 3].value
                    /\ te[i].params = te[i - 4].point
        /\ \A i, j \in 3..Len(events) : i < j => events[i].t <= events[j].t

C6_Witness ==
    /\ pc = "done"
    /\ args.stabilizer
    /\ args.init_trials = 1
    /\ Len(TrialEvents) = 15
    /\ Dim = 1

\* C7: the incumbent starts as {params: None, objective: -inf}; a step that
\* changes it puts a strictly greater objective in it; after the comparison
\* of trial k it holds the greatest objective of trials 0..k with the
\* candidate of the earliest trial that reached it, and params None as long
\* as no objective exceeded -inf.
Compared == Len(EventsOf(events, "compare"))

FirstMaxIndex(vals, n) ==
    CHOOSE i \in 1..n :
        /\ \A k \in 1..n : vals[k] <= vals[i]
        /\ \A k \in 1..(i - 1) : vals[k] < vals[i]

C7_IncumbentState ==
    InRun =>
        LET n == Compared
            vals == Returned(events)
            cands == Candidates(events)
        IN  IF \A i \in 1..n : vals[i] = NegInf
            THEN best = [params |-> None, objective |-> NegInf]
            ELSE LET m == FirstMaxIndex(vals, n)
                 IN  best = [params |-> Some(cands[m]), objective |-> vals[m]]

C7_IncumbentStep ==
    (best # None /\ best' # best) =>
        /\ best'.objective > best.objective
        /\ best'.objective = objective_value[1]
        /\ best'.params = proposal

C8_TerminatesAfterMaxTrials ==
    LET ev == EventsOf(events, "evaluate")
    IN  /\ (pc = "raised" /\ ev # << >>) => \E i \in 1..Len(ev) : ev[i].raised
        /\ pc = "done" =>
              /\ Len(ev) = args.max_trials
              /\ \A i \in 1..Len(ev) : ev[i].t = i - 1
              /\ returned = Some(best)
              /\ args.init_trials > args.max_trials =>
                    EventsOf(events, "suggest") = << >>

\* C9: with fewer than dim + 1 observations, suggest() returns dim
\* coordinates, each in [0, 1], without fitting the regressor, and returns
\* the same point whatever objective values are stored.
C9_ColdStartFallback ==
    /\ (InRun /\ Len(bo.y) < Dim + 1) =>
          LET s == suggest(parameters, bo.X, bo.y, rng, NumCandidates)
          IN  /\ ~s.fit
              /\ s.error = "none"
              /\ Len(s.unit) = Dim
              /\ \A j \in 1..Dim : 0 <= s.unit[j] /\ s.unit[j] <= Den
              /\ \A y2 \in [1..Len(bo.y) -> ObjValues] :
                    suggest(parameters, bo.X, y2, rng, NumCandidates) = s
    /\ \A i \in 1..Len(events) :
          (events[i].kind = "suggest" /\ events[i].t < Dim + 1) =>
              /\ ~events[i].fit
              /\ Len(events[i].unit) = Dim
              /\ \A j \in 1..Dim : 0 <= events[i].unit[j] /\ events[i].unit[j] <= Den

C9_Witness ==
    /\ pc = "stabilize"
    /\ Dim = 2
    /\ t = 2
    /\ Len(bo.y) = 2
    /\ bo.y[1] # bo.y[2]
    /\ events[Len(events)].kind = "suggest"
    /\ ~events[Len(events)].fit

\* C10: the regressor is fitted only in trials t >= init_trials that have
\* dim + 1 observations behind them, and in every such trial; with
\* init_trials = 0 the design is empty and every trial calls suggest(), the
\* trials 0..dim without a fit and the trial dim + 1 with the first one.
C10_FitOnlyWhenWarm ==
    InRun =>
        /\ \A i \in 1..Len(events) :
              events[i].kind = "suggest" =>
                  /\ events[i].t >= args.init_trials
                  /\ events[i].fit <=> events[i].t >= Dim + 1
        /\ args.init_trials = 0 =>
              /\ initial = << >>
              /\ \A i \in 1..Len(events) :
                    events[i].kind = "stabilize" =>
                        Len(SuggestsOf(events[i].t)) = 1

C10_Witness ==
    /\ pc = "done"
    /\ args.init_trials = 0
    /\ Dim = 1
    /\ LET sg == EventsOf(events, "suggest")
       IN  /\ Len(sg) = 3
           /\ ~sg[1].fit
           /\ ~sg[2].fit
           /\ sg[3].fit
           /\ sg[3].t = Dim + 1

\* C11: a suggest() call with at least dim + 1 observations fits the
\* regressor once, on everything observed so far and on nothing else: in
\* run(), the fit of trial t is given the t pairs (normalize(parameters,
\* candidate), objective) of the trials 0..t-1, design trials included, in
\* trial order.
C11_FitOnAllObservations ==
    InRun =>
        \A i \in 1..Len(events) :
            events[i].kind = "suggest" =>
                LET before == SubSeq(events, 1, i - 1)
                    cands == Candidates(before)
                    vals == Returned(before)
                    tt == events[i].t
                IN  IF tt >= Dim + 1
                    THEN /\ events[i].fit
                         /\ events[i].trained # None
                         /\ Len(cands) = tt
                         /\ Len(vals) = tt
                         /\ events[i].trained[1].X =
                               [k \in 1..tt |-> normalize(parameters, cands[k])]
                         /\ events[i].trained[1].y = [k \in 1..tt |-> vals[k]]
                    ELSE events[i].trained = None

C11_Witness ==
    /\ pc = "done"
    /\ args.init_trials = 2
    /\ Dim = 1
    /\ \E i \in 1..Len(events) :
          /\ events[i].kind = "suggest"
          /\ events[i].t = 2
          /\ events[i].fit
          /\ Len(events[i].trained[1].y) = 2
          /\ events[i].trained[1].y[1] # events[i].trained[1].y[2]
          /\ events[i].trained[1].X[1] # events[i].trained[1].X[2]

\* C12: bo.X and bo.y are parallel and append-only within a run: empty
\* before trial 0, as long as the number of trials observed so far (t, and
\* t + 1 from the observe of trial t to its record), entry i being
\* (normalize(parameters, candidate), objective) of trial i - 1; a step that
\* changes them is the observe step, which appends one entry to each and
\* leaves the earlier entries as they were.
Observed == IF pc \in {"compare", "log"} THEN t + 1 ELSE t

C12_ObservationsState ==
    InRun =>
        /\ Len(bo.X) = Observed
        /\ Len(bo.y) = Observed
        /\ Len(EventsOf(events, "observe")) = Observed
        /\ \A i \in 1..Len(bo.X) :
              /\ bo.X[i] = normalize(parameters, Candidates(events)[i])
              /\ bo.y[i] = Returned(events)[i]

C12_ObservationsStep ==
    (pc # "idle" /\ bo' # bo) =>
        /\ pc = "observe"
        /\ Len(bo'.X) = Len(bo.X) + 1
        /\ Len(bo'.y) = Len(bo.y) + 1
        /\ SubSeq(bo'.X, 1, Len(bo.X)) = bo.X
        /\ SubSeq(bo'.y, 1, Len(bo.y)) = bo.y
        /\ bo'.X[Len(bo'.X)] = normalize(parameters, proposal[1])
        /\ bo'.y[Len(bo'.y)] = objective_value[1]

C12_Observations == []C12_ObservationsState /\ [][C12_ObservationsStep]_vars

C12_Witness ==
    /\ pc = "done"
    /\ Len(bo.X) = 3
    /\ bo.X[1] # bo.X[2]
    /\ bo.y[1] # bo.y[2]
    /\ \E i \in 1..Len(events) : events[i].kind = "suggest" /\ events[i].fit

\* ------------------------------------------- latin_hypercube called directly
\* raw outputs of an entropy-seeded stream: enough of them to reach every
\* value of a rand() draw and of a shuffle draw
TapeValues == {s \in 0..(RngMod - 1) : s % 3 = 0}

RECURSIVE Tapes(_)
Tapes(n) ==
    IF n = 0 THEN {<< >>}
    ELSE Tapes(n - 1) \cup {Append(tp, v) : tp \in Tapes(n - 1), v \in TapeValues}

DesignSpaces ==
    { << >>,
      << Parameter("a", 0, 2) >>,
      << Parameter("a", 0, 2), Parameter("b", 1, 3) >> }

\* a caller about to call latin_hypercube(parameters, n) on a stream whose
\* next outputs are arbitrary
InitDesign ==
    /\ experiment \in [kind : {"protocol"}, parameters : DesignSpaces]
    /\ args \in [init_trials : 0..MaxInit, max_trials : {1}, seed : {0},
                 stabilizer : {FALSE}]
    /\ pc = "idle"
    /\ rng \in [s : {0}, tape : Tapes(MaxTape)]
    /\ pyrng = 0
    /\ parameters = << >>
    /\ bo = SimpleBO
    /\ initial = << >>
    /\ best = None
    /\ t = 0
    /\ proposal = None
    /\ objective_value = None
    /\ returned = None
    /\ error = "none"
    /\ events = << >>
    /\ memo = {}
    /\ runs = 0
    /\ foreign = 0
    /\ prev = None
    /\ ARTIQ_AVAILABLE = FALSE
    /\ calls = << >>

\* initial = latin_hypercube(parameters, n)
CallLatinHypercube ==
    /\ pc = "idle"
    /\ LET lh == latin_hypercube(experiment.parameters, args.init_trials, rng)
       IN  /\ initial' = lh.design
           /\ rng' = lh.st
           /\ events' = << [kind |-> "latin_hypercube", n |-> args.init_trials,
                            unit |-> lh.unit, design |-> lh.design] >>
    /\ parameters' = experiment.parameters
    /\ pc' = "called"
    /\ UNCHANGED <<ARTIQ_AVAILABLE, calls, experiment, args, pyrng, bo, best, t, proposal, objective_value,
                   returned, error, memo, runs, foreign, prev>>

NextDesign == CallLatinHypercube

SpecDesign == InitDesign /\ [][NextDesign]_vars

\* C13: for n >= 1, on every axis j each of the n strata [k/n, (k+1)/n)
\* holds exactly one of the n normalized values latin_hypercube puts on that
\* axis, whatever the stream gives for the offsets and the shuffles; the
\* result is the n physical points denormalize makes of the n rows, and it
\* is empty for n = 0.
InStratum(u, k, n) == k * Den <= n * u /\ n * u < (k + 1) * Den

C13_Stratified ==
    pc = "called" =>
        LET e == events[1]
            n == e.n
        IN  /\ Len(e.design) = n
            /\ Len(e.unit) = n
            /\ n = 0 => e.design = << >>
            /\ \A i \in 1..n :
                  /\ Len(e.unit[i]) = Dim
                  /\ DOMAIN e.design[i] = Names(parameters)
                  /\ e.design[i] = denormalize(parameters, e.unit[i])
            /\ \A j \in 1..Dim : \A k \in 0..(n - 1) :
                  Cardinality({i \in 1..n : InStratum(e.unit[i][j], k, n)}) = 1

C13_Witness ==
    /\ pc = "called"
    /\ events[1].n = 2
    /\ Dim = 2
    /\ events[1].unit[1][1] > events[1].unit[2][1]
    /\ events[1].unit[1][2] < events[1].unit[2][2]
    /\ events[1].unit[2][1] > 0

\* --------------------------------- normalize / denormalize called directly
\* spaces with low < high, some of them narrow and far from zero
RoundTripSpaces ==
    LET spaces ==
            { << Parameter("a", l, l + w) >> :
                  l \in {-3, 0, 1, 63, 120, 250, 255, 256, 1000}, w \in {1, 2, 5, 8, 64} }
              \cup { << Parameter("b", 0, 2), Parameter("a", 1, 4) >>,
                     << Parameter("a", 250, 255), Parameter("b", -3, 5) >> }
    IN  { params \in spaces :
              \A i \in 1..Len(params) :
                  Bound(params[i].bounds[1]) < Bound(params[i].bounds[2]) }

\* normalized vectors, with coordinates at, inside and outside [0, 1]
UnitVectors(dim) == [1..dim -> (-1)..(Den + 1)]

InitRoundTrip ==
    /\ experiment \in [kind : {"protocol"}, parameters : RoundTripSpaces]
    /\ args = [init_trials |-> 0, max_trials |-> 1, seed |-> 0, stabilizer |-> FALSE]
    /\ pc = "idle"
    /\ rng = Stream(0)
    /\ pyrng = 0
    /\ parameters = << >>
    /\ bo = SimpleBO
    /\ initial = << >>
    /\ best = None
    /\ t = 0
    /\ proposal = None
    /\ objective_value = None
    /\ returned = None
    /\ error = "none"
    /\ events = << >>
    /\ memo = {}
    /\ runs = 0
    /\ foreign = 0
    /\ prev = None
    /\ ARTIQ_AVAILABLE = FALSE
    /\ calls = << >>

\* normalize(parameters, denormalize(parameters, u))
CallRoundTrip ==
    /\ pc = "idle"
    /\ \E u \in UnitVectors(Len(experiment.parameters)) :
          LET physical == denormalize(experiment.parameters, u)
          IN  /\ proposal' = Some(physical)
              /\ events' = << [kind |-> "round_trip", unit |-> u,
                               physical |-> physical,
                               back |-> normalize(experiment.parameters, physical)] >>
    /\ parameters' = experiment.parameters
    /\ pc' = "called"
    /\ UNCHANGED <<ARTIQ_AVAILABLE, calls, experiment, args, rng, pyrng, bo, initial, best, t,
                   objective_value, returned, error, memo, runs, foreign, prev>>

NextRoundTrip == CallRoundTrip

SpecRoundTrip == InitRoundTrip /\ [][NextRoundTrip]_vars

InUnitCube(u) == \A j \in 1..Len(u) : 0 <= u[j] /\ u[j] <= Den

LargestBound(p) ==
    LET l == Abs(Bound(p.bounds[1]))
        h == Abs(Bound(p.bounds[2]))
    IN  IF l > h THEN l ELSE h

\* the floats between the bounds are exact, or spaced closer than one step
\* of the normalized coordinate is wide in the space
WellConditioned(params) ==
    \A i \in 1..Len(params) :
        \/ Ulp(LargestBound(params[i])) = 1
        \/ Den * Ulp(LargestBound(params[i])) < Width(params[i])

IsPhysicalPoint(params, point) ==
    /\ DOMAIN point = Names(params)
    /\ \A i \in 1..Len(params) :
          /\ Bound(params[i].bounds[1]) <= point[params[i].name]
          /\ point[params[i].name] <= Bound(params[i].bounds[2])

Handed(evs) == { e \in Range(evs) : e.kind \in {"stabilize", "evaluate"} }

\* C15: over a space with low < high on each parameter, what the stabilizer
\* and the evaluator of every trial receive is a Physical Point: one entry
\* per parameter name, each within [low, high]; it is the denormalized
\* candidate of the trial, never the normalized vector.
C15_PhysicalPoints ==
    WellFormed(parameters) =>
        \A e \in Handed(events) :
            /\ IsPhysicalPoint(parameters, e.point)
            /\ \A g \in Range(SuggestsOf(e.t)) :
                  ~g.raised => e.point = denormalize(parameters, g.unit)

C15_Witness ==
    /\ WellFormed(parameters)
    /\ Dim = 2
    /\ \E e \in Handed(events), d \in Handed(events) :
          /\ e.kind = "evaluate" /\ d.kind = "stabilize"
          /\ e.t = d.t /\ e.t >= args.init_trials
          /\ e.point = d.point
          /\ ~e.raised
          /\ e.point["b"] > Den
          /\ e.point["a"] > 0

\* the stream k draws after st
RECURSIVE Advance(_, _)
Advance(st, k) == IF k = 0 THEN st ELSE Advance(rng_step(st), k - 1)

\* draws of latin_hypercube: per axis, n of rand(n) and n - 1 of the shuffle
DesignDraws(evs) ==
    LET d == EventsOf(evs, "design")
    IN  IF Len(d) = 0 THEN 0
        ELSE Dim * (d[1].n + (IF d[1].n > 1 THEN d[1].n - 1 ELSE 0))

\* draws of one suggest(): the fallback point, or the candidates of a fit
\* that succeeded
DrawsOfSuggest(e) ==
    IF ~e.fit THEN Dim ELSE IF e.raised THEN 0 ELSE NumCandidates * Dim

RECURSIVE SuggestDraws(_)
SuggestDraws(evs) ==
    IF evs = << >> THEN 0
    ELSE (IF Head(evs).kind = "suggest" THEN DrawsOfSuggest(Head(evs)) ELSE 0)
             + SuggestDraws(Tail(evs))

C16_StreamState ==
    InRun =>
        /\ Len(EventsOf(events, "seed")) = 1
        /\ events[1].kind = "seed"
        /\ events[1].seed = args.seed
        /\ rng = Advance(Stream(args.seed % RngMod),
                         DesignDraws(events) + SuggestDraws(events))
        /\ \A i, j \in 1..Len(events) :
              (i < j /\ events[i].kind = "suggest" /\ events[j].kind = "suggest")
                  => events[i].t < events[j].t

C16_StreamStep ==
    (pc # "idle" /\ rng' # rng) =>
        /\ pc = "loop"
        /\ t >= args.init_trials
        /\ Len(events') = Len(events) + 1
        /\ events'[Len(events')].kind = "suggest"
        /\ events'[Len(events')].t = t

\* C16: within a run the stream is seeded once, first of all and with the
\* supplied seed; from then on it stands exactly as many draws after the
\* seeded state as the design and the suggestions made so far have taken, the
\* design's draws first and each trial's draws in trial order, and only a
\* suggestion moves it: it is never seeded again.
C16_SeededOnceFixedOrder == []C16_StreamState /\ [][C16_StreamStep]_vars

C16_Witness ==
    /\ pc = "done"
    /\ args.seed = 1
    /\ args.init_trials = 1
    /\ Dim = 1
    /\ \E e, g \in Range(EventsOf(events, "suggest")) : ~e.fit /\ g.fit /\ ~g.raised
    /\ rng # Stream(1)

\* ------------------------------------------------ the ARTIQ entry points
\* ConfigurableBOExperiment and the subclasses that inherit its run()
ConfigurableKinds == {"configurable", "adc_dac", "urukul_sampler"}

\* the experiment classes with a run() of their own or an inherited one;
\* bounds in units of 0.1 (dac_voltage of adc_dac) and 0.05 (amplitudes)
HardwareExperiments ==
    [kind : {"configurable"}, parameters : {<< >>, << Parameter("a", 0, 2) >>}]
      \cup { [kind |-> "adc_dac",
              parameters |-> << Parameter("dac_voltage", 15, 16) >>],
             [kind |-> "urukul_sampler",
              parameters |-> << Parameter("urukul_amplitude", 1, 19) >>],
             [kind |-> "suservo_manual",
              parameters |-> << Parameter("u3_dds_amp", 1, 19) >>],
             [kind |-> "zotino_runner",
              parameters |-> << Parameter("dac_voltage", -10, 10) >>] }

ensure_artiq_never(available) == FALSE

\* _ensure_artiq(): raises RuntimeError unless ARTIQ_AVAILABLE
ensure_artiq_raises(available) == ~available

\* the keyword parameters of main.run
RunSignature == {"experiment", "init_trials", "max_trials", "seed", "stabilizer"}

\* the keywords each run() passes to run_bo
Keywords(kind) ==
    IF kind = "zotino_runner"
    THEN {"parameters", "init_trials", "max_trials", "seed", "objective_fn"}
    ELSE {"experiment", "init_trials", "max_trials", "seed"}

\* binding the call: an unknown keyword or a missing experiment is a TypeError
call_raises(keywords) ==
    \/ ~(keywords \subseteq RunSignature)
    \/ "experiment" \notin keywords

\* the variants whose setup checks the device database first
ChecksDevices == {"urukul_sampler", "suservo_manual"}

InitHardware ==
    /\ experiment \in HardwareExperiments
    /\ args \in [init_trials : 1..MaxInit, max_trials : 1..MaxTrials,
                 seed : {0}, stabilizer : {FALSE}]
    /\ pc = "entry"
    /\ rng = Stream(0)
    /\ pyrng = 0
    /\ parameters = << >>
    /\ bo = SimpleBO
    /\ initial = << >>
    /\ best = None
    /\ t = 0
    /\ proposal = None
    /\ objective_value = None
    /\ returned = None
    /\ error = "none"
    /\ events = << >>
    /\ memo = {}
    /\ runs = 0
    /\ foreign = 0
    /\ prev = None
    /\ ARTIQ_AVAILABLE \in BOOLEAN
    /\ calls = << >>

\* run(): self._ensure_artiq()
EnsureArtiq ==
    /\ pc = "entry"
    /\ calls' = Append(calls, "_ensure_artiq")
    /\ IF ensure_artiq_raises(ARTIQ_AVAILABLE)
       THEN /\ pc' = "raised"
            /\ error' = "RuntimeError"
       ELSE /\ pc' = "setup"
            /\ UNCHANGED error
    /\ UNCHANGED <<ARTIQ_AVAILABLE, experiment, args, rng, pyrng, parameters, bo,
                   initial, best, t, proposal, objective_value, returned, events,
                   memo, runs, foreign, prev>>

\* run(): self.setup_bo_run() of a ConfigurableBOExperiment; in the classes
\* with a run() of their own, _ensure_devices_present() and init_hardware()
SetupBoRun ==
    /\ pc = "setup"
    /\ \E present \in BOOLEAN :
          LET missing == experiment.kind \in ChecksDevices /\ ~present
          IN  /\ calls' =
                    calls \o
                    (IF experiment.kind \in ConfigurableKinds
                     THEN << "setup_bo_run" >>
                     ELSE IF experiment.kind = "suservo_manual"
                     THEN IF missing
                          THEN << "_ensure_devices_present" >>
                          ELSE << "_ensure_devices_present", "init_hardware" >>
                     ELSE << "init_hardware" >>)
              /\ IF missing
                 THEN /\ pc' = "raised"
                      /\ error' = "RuntimeError"
                 ELSE /\ pc' = "call"
                      /\ UNCHANGED error
    /\ UNCHANGED <<ARTIQ_AVAILABLE, experiment, args, rng, pyrng, parameters, bo,
                   initial, best, t, proposal, objective_value, returned, events,
                   memo, runs, foreign, prev>>

\* run(): best = run_bo(...), up to the binding of its arguments
CallRunBo ==
    /\ pc = "call"
    /\ calls' = Append(calls, "run_bo")
    /\ IF call_raises(Keywords(experiment.kind))
       THEN /\ pc' = "raised"
            /\ error' = "TypeError"
       ELSE /\ pc' = "idle"
            /\ UNCHANGED error
    /\ UNCHANGED <<ARTIQ_AVAILABLE, experiment, args, rng, pyrng, parameters, bo,
                   initial, best, t, proposal, objective_value, returned, events,
                   memo, runs, foreign, prev>>

NextHardware ==
    \/ EnsureArtiq
    \/ SetupBoRun
    \/ CallRunBo
    \/ Start
    \/ Propose
    \/ Stabilize
    \/ Evaluate
    \/ Observe
    \/ Compare
    \/ Log
    \/ Return

SpecHardware == InitHardware /\ [][NextHardware]_vars

CountOf(seq, x) == Len(SelectSeq(seq, LAMBDA c : c = x))

\* C17: whichever experiment class the entry point belongs to, the call its
\* run() makes to main.run is accepted, and unless the experiment's own
\* parameter_space() rejects the space, the run fails, if it fails, in a
\* trial: not before trial 0.
C17_EveryVariantReachesTrial0 ==
    (CountOf(calls, "run_bo") > 0 /\ ~parameter_space_raises(experiment)) =>
        /\ error # "TypeError"
        /\ pc = "raised" => EventsOf(events, "evaluate") # << >>

C18_HookState ==
    experiment.kind \in ConfigurableKinds =>
        /\ CountOf(calls, "setup_bo_run") <= 1
        /\ EventsOf(events, "evaluate") # << >> => CountOf(calls, "setup_bo_run") = 1
        /\ pc = "done" => CountOf(calls, "setup_bo_run") = 1
        /\ (~ARTIQ_AVAILABLE /\ pc # "entry") =>
              /\ pc = "raised"
              /\ error = "RuntimeError"
              /\ calls = << "_ensure_artiq" >>
              /\ events = << >>

C18_HookStep ==
    (experiment.kind \in ConfigurableKinds
        /\ CountOf(calls', "setup_bo_run") > CountOf(calls, "setup_bo_run")) =>
        /\ ARTIQ_AVAILABLE
        /\ calls = << "_ensure_artiq" >>
        /\ events = << >>
        /\ events' = << >>

\* C18: the inherited run() calls setup_bo_run once, after _ensure_artiq and
\* before anything of the loop, so every evaluate() of the run comes after
\* that one call; without ARTIQ it raises RuntimeError at _ensure_artiq, and
\* neither the hook nor the loop is entered.
C18_SetupOnceBeforeEvaluate == []C18_HookState /\ [][C18_HookStep]_vars

C18_Witness ==
    /\ experiment.kind = "adc_dac"
    /\ ARTIQ_AVAILABLE
    /\ pc = "done"
    /\ calls = << "_ensure_artiq", "setup_bo_run", "run_bo" >>
    /\ Len(EventsOf(events, "evaluate")) = args.max_trials
    /\ args.max_trials >= 2

\* the trials whose comparison with the incumbent has been made
ComparedTrials == { c.t : c \in Range(EventsOf(events, "compare")) }

\* C19: at every state of run(), an incumbent with params is the outcome of
\* one trial that has been evaluated and compared, no later than the current
\* t: its params are that trial's candidate and its objective the value the
\* evaluator returned for it, above -infinity; the params are none exactly
\* while no compared trial has returned more than -infinity, and the
\* objective is then -infinity.
C19_IncumbentFromOneTrial ==
    InRun =>
        LET done == { e \in Range(EventsOf(events, "evaluate")) :
                          ~e.raised /\ e.t \in ComparedTrials }
        IN  IF best.params = None
            THEN /\ best.objective = NegInf
                 /\ \A e \in done : e.value = NegInf
            ELSE \E e \in done :
                    /\ e.t <= t
                    /\ best.params = Some(e.point)
                    /\ best.objective = e.value
                    /\ e.value > NegInf
                    /\ \E c \in Range(EventsOf(events, "compare")) :
                          c.t = e.t /\ c.replaced

C19_Witness ==
    /\ pc = "loop"
    /\ t = 3
    /\ Returned(events) = <<NegInf, 1, 0>>
    /\ best = [params |-> Some(Candidates(events)[2]), objective |-> 1]
    /\ Candidates(events)[2] # Candidates(events)[3]

====
